---- MODULE Spec2Model ----
(***************************************************************************)
(* Turn controller of the voice chat client (VoiceChat component).         *)
(*                                                                         *)
(* The component keeps its controller state in React refs (processing      *)
(* lock, abort handle, pending input, current response buffer) and its     *)
(* displayed state in React state hooks (messages, status, call flag).     *)
(* State-hook updates are queued and applied by a later render; the ref    *)
(* mirrors (messagesRef, isCallActiveRef) are synchronised by effects that *)
(* run with that render.  Every invocation of handleLLMResponse is a turn  *)
(* with its own position (awaiting fetch, awaiting a stream read, awaiting *)
(* the synthesizer).                                                       *)
(*                                                                         *)
(* The stream loop of one response (lines, frames, [DONE]) and the         *)
(* accumulators of the reasoning_content patch are modelled on their own:  *)
(* SpecStream and SpecPatched.  In the controller specifications a read    *)
(* that carries an answer fragment is one step (ReadDelta).                *)
(* The functions that resolve thinking and clean text are applied to       *)
(* bounded arguments in SpecResolve.                                       *)
(***************************************************************************)
EXTENDS Integers, Sequences, FiniteSets, TLC

\* ------------------------------------------------------------------ bounds
MaxTurns == 2
MaxUtter == 3
MaxDeltas == 2
MaxQueue == 3
\* bounds of the deferred-start scenario (specification SpecDeferred)
DeferredTurns == 3
DeferredUtter == 4
\* bounds of the scenario of overlapping speech (specification SpecOverlap)
OverlapTurns == 3
OverlapUtter == 3
OverlapDeltas == 1
\* bounds of the runs with fair scheduling (specification SpecFair)
FairTurns == 2
FairUtter == 3
FairDeltas == 1
\* calls that are ended while a turn or an utterance is outstanding
HangupTurns == 2
HangupUtter == 3
\* lines of a response stream
MaxFrames == 3
\* deltas applied by the patched handler
MaxPatchedDeltas == 3
\* pieces of an argument of the resolve functions
MaxPieces == 5
\* the observed run
ObsTurns == 1
ObsUtter == 2

Turns == 1..(IF MaxTurns > DeferredTurns THEN MaxTurns ELSE DeferredTurns)

\* -------------------------------------------------------------- strings
\* A string is a sequence of one-character strings.  Null stands for the
\* JavaScript null / undefined of an optional string field.
Null == <<"null">>
Space == " "
StartMarker == <<"<", "t", "h", "i", "n", "k", ">">>
EndMarker == <<"<", "/", "t", "h", "i", "n", "k", ">">>

IsPrefixAt(s, pat, i) ==
    /\ i + Len(pat) <= Len(s)
    /\ \A j \in 1..Len(pat) : s[i + j] = pat[j]

\* String.prototype.indexOf: 0-based index of the first occurrence, or -1.
IndexOf(s, pat) ==
    LET hits == {i \in 0..Len(s) : IsPrefixAt(s, pat, i)}
    IN IF hits = {} THEN -1 ELSE CHOOSE i \in hits : \A j \in hits : i <= j

\* String.prototype.substring(from, to) for 0 <= from, to (swapped if from > to).
Substring(s, from, to) ==
    LET a == IF from <= to THEN from ELSE to
        b == IF from <= to THEN to ELSE from
        bb == IF b > Len(s) THEN Len(s) ELSE b
    IN IF a >= bb THEN <<>> ELSE SubSeq(s, a + 1, bb)

SubstringFrom(s, from) == Substring(s, from, Len(s))

RECURSIVE TrimLeft(_)
TrimLeft(s) == IF s # <<>> /\ Head(s) = Space THEN TrimLeft(Tail(s)) ELSE s

RECURSIVE TrimRight(_)
TrimRight(s) ==
    IF s # <<>> /\ s[Len(s)] = Space THEN TrimRight(SubSeq(s, 1, Len(s) - 1)) ELSE s

\* String.prototype.trim
Trim(s) == TrimRight(TrimLeft(s))

\* JavaScript truthiness of an optional string
Truthy(s) == s # Null /\ s # <<>>

processResponseTrimmed(rawResponse) ==
    LET startIndex == IndexOf(rawResponse, StartMarker)
        endIndex == IndexOf(rawResponse, EndMarker)
    IN IF startIndex # -1 /\ endIndex # -1 /\ startIndex < endIndex
       THEN [thinking |-> Trim(Substring(rawResponse, startIndex + Len(StartMarker), endIndex)),
             cleanResponse |-> Trim(Substring(rawResponse, 0, startIndex)
                                    \o SubstringFrom(rawResponse, endIndex + Len(EndMarker)))]
       ELSE [thinking |-> Null, cleanResponse |-> Trim(rawResponse)]

processResponse(rawResponse) ==
    LET startIndex == IndexOf(rawResponse, StartMarker)
        endIndex == IndexOf(rawResponse, EndMarker)
    IN IF startIndex # -1 /\ endIndex # -1 /\ startIndex < endIndex
       THEN [thinking |-> Trim(Substring(rawResponse, startIndex + Len(StartMarker), endIndex)),
             cleanResponse |-> Trim(Substring(rawResponse, 0, startIndex)
                                    \o SubstringFrom(rawResponse, endIndex + Len(EndMarker)))]
       ELSE [thinking |-> Null, cleanResponse |-> rawResponse]

\* ------------------------------------------------------------- messages
\* ChatMessage {role, content, thinking}; turn is history information: the
\* turn whose placeholder the Message is (0 for a user Message).
UserMsg(text) == [role |-> "user", content |-> text, thinking |-> Null, turn |-> 0]
AssistantMsg(t) == [role |-> "assistant", content |-> <<>>, thinking |-> Null, turn |-> t]

\* conversationHistory.map(msg => ({role, content}))
RECURSIVE ApiMessages(_)
ApiMessages(hist) ==
    IF hist = <<>> THEN <<>>
    ELSE <<[role |-> Head(hist).role, content |-> Head(hist).content]>> \o ApiMessages(Tail(hist))

\* Queued setMessages calls.  "content" is the streaming updater, which reads
\* currentResponseRef.current when it runs; "thinking" carries its value.
AppendUpd(m) == [kind |-> "append", msg |-> m, val |-> Null]
ContentUpd == [kind |-> "content", msg |-> UserMsg(<<>>), val |-> Null]
ThinkingUpd(v) == [kind |-> "thinking", msg |-> UserMsg(<<>>), val |-> v]
ResetUpd == [kind |-> "reset", msg |-> UserMsg(<<>>), val |-> Null]
\* An update whose new state was computed when it was queued (see InPlaceMsgs).
DoneUpd == [kind |-> "done", msg |-> UserMsg(<<>>), val |-> Null]

LastIsAssistant(msgs) == msgs # <<>> /\ msgs[Len(msgs)].role = "assistant"

ApplyUpd(msgs, u, cur) ==
    CASE u.kind = "append" -> Append(msgs, u.msg)
      [] u.kind = "reset" -> <<>>
      [] u.kind = "done" -> msgs
      [] u.kind = "content" ->
            IF LastIsAssistant(msgs) THEN [msgs EXCEPT ![Len(msgs)].content = cur] ELSE msgs
      [] u.kind = "thinking" ->
            IF LastIsAssistant(msgs) THEN [msgs EXCEPT ![Len(msgs)].thinking = u.val] ELSE msgs

RECURSIVE ApplyAll(_, _, _)
ApplyAll(msgs, q, cur) ==
    IF q = <<>> THEN msgs ELSE ApplyAll(ApplyUpd(msgs, Head(q), cur), Tail(q), cur)

\* ---------------------------------------------------------------- state
VARIABLES
    messages, msgQueue, messagesRef,
    status, statusPend, statusMessage, statusMessagePend,
    isCallActive, callPend, isCallActiveRef,
    isProcessingRef, abortControllerRef, pendingUserInputRef, currentResponseRef,
    pc, aborted, req, nDeltas, tts, spoken, nextTurn,
    timers, nUtter, micOn,
    marked, superseded, dropped, cap,
    obs, sse, patched

reactVars == <<messages, msgQueue, messagesRef, status, statusPend, statusMessage,
               statusMessagePend, isCallActive, callPend, isCallActiveRef>>
refVars == <<isProcessingRef, abortControllerRef, pendingUserInputRef, currentResponseRef>>
turnVars == <<pc, aborted, req, nDeltas, tts, spoken, nextTurn>>
envVars == <<timers, nUtter, micOn>>
histVars == <<marked, superseded, dropped>>
\* cap: the bounds and switches of the run.  obs: what an observer of the
\* controller has seen (the text each turn received, the last transcript
\* event, the input and turn counters at the last endCall).  sse: the stream
\* loop of one response, in the client or in the server-side transformer.
\* patched: the accumulators of the reasoning_content patch.
auxVars == <<cap, obs, sse, patched>>
vars == <<reactVars, refVars, turnVars, envVars, histVars, auxVars>>


InitState ==
    /\ messages = <<>> /\ msgQueue = <<>> /\ messagesRef = <<>>
    /\ status = "loading" /\ statusPend = "none"
    /\ statusMessage = "Loading STT models..." /\ statusMessagePend = "none"
    /\ isCallActive = FALSE /\ callPend = "none" /\ isCallActiveRef = FALSE
    /\ isProcessingRef = FALSE /\ abortControllerRef = 0
    /\ pendingUserInputRef = Null /\ currentResponseRef = <<>>
    /\ pc = [t \in Turns |-> "free"]
    /\ aborted = [t \in Turns |-> FALSE]
    /\ req = [t \in Turns |-> <<>>]
    /\ nDeltas = [t \in Turns |-> 0]
    /\ tts = [t \in Turns |-> "none"]
    /\ spoken = [t \in Turns |-> Null]
    /\ nextTurn = 1
    /\ timers = <<>> /\ nUtter = 0 /\ micOn = FALSE
    /\ marked = {}
    /\ superseded = {} /\ dropped = {}

\* Nothing observed, no response stream and no patched accumulation.
ObsInit == [raw |-> [t \in Turns |-> <<>>], event |-> <<Null, FALSE>>,
            hung |-> [utter |-> -1, turn |-> 0]]
SseIdle == [stream |-> <<>>, pos |-> 0, buffer |-> <<>>, text |-> <<>>,
            sawDone |-> FALSE, phase |-> "idle",
            body |-> TRUE, out |-> <<>>, closed |-> 0]
\* patched: the two accumulators, the number of frames handled and the last
\* delta; thinking and clean are the values last written to the assistant
\* Message (empty placeholder at first); args and result are the arguments
\* and the return value of the last call of a resolve function (fn).
PatchedIdle == [content |-> <<>>, reasoning |-> <<>>, n |-> 0,
                delta |-> [content |-> Null, reasoning_content |-> Null],
                thinking |-> Null, clean |-> <<>>, phase |-> "idle",
                fn |-> "none", args |-> <<Null, Null>>,
                result |-> [thinking |-> Null, cleanResponse |-> <<>>]]
AuxIdle == obs = ObsInit /\ sse = SseIdle /\ patched = PatchedIdle

\* Answer fragments a stream may deliver (delta.content of one frame).
Fragments == {<<"a">>, <<Space>>, StartMarker \o <<"b">> \o EndMarker \o <<"c">>}
\* A sentence with the blank that follows it, and the text of a next one.
SentenceFragments == {<<"a", ".", Space>>, <<"c">>}

\* cap holds the bounds of the run (turns, utterances, deltas of a turn, the
\* answer fragments the backend sends, the slack of the update queue) and
\* whether the transport honours abort:
\* with leaky FALSE an aborted read rejects like an aborted fetch; with leaky
\* TRUE a read may still deliver after abort() was called.  With observe
\* TRUE obs records what the controller receives.
Init ==
    /\ InitState /\ AuxIdle
    /\ cap = [turns |-> MaxTurns, utter |-> MaxUtter, leaky |-> FALSE, observe |-> FALSE,
              deltas |-> MaxDeltas, fragments |-> Fragments, slack |-> FALSE]

\* The record of an observer, kept only in observed runs.
Observe(o) == IF cap.observe THEN o ELSE obs

Live(t) == pc[t] \in {"fetch", "read", "speak"}

\* A fetch or read rejected by abort() settles within the task that called
\* abort(): its continuation runs before any later event is handled.
MicrotaskPending ==
    \E t \in Turns : aborted[t] /\ (pc[t] = "fetch" \/ (pc[t] = "read" /\ ~cap.leaky))

\* No state update is waiting for a render.
NothingPending ==
    msgQueue = <<>> /\ statusPend = "none" /\ statusMessagePend = "none" /\ callPend = "none"

\* setMessages(prev => { ...; lastMessage.<field> = ...; return newMessages }).
\* The updater changes the last Message object in place.  React runs an
\* updater at once when no update is pending for the component, and at the
\* next render otherwise; run at once, its change is in the Message object
\* that messages and messagesRef.current share.
InPlaceMsgs(msgs, u, cur) == IF NothingPending THEN ApplyUpd(msgs, u, cur) ELSE msgs
InPlaceQueue(u) == IF NothingPending THEN <<DoneUpd>> ELSE Append(msgQueue, u)

QueueRoom(n) == Len(msgQueue) + n <= MaxQueue

\* Room for the updates of a turn's own steps: the bound of the queue,
\* lifted in a run with slack, where a turn must never wait for a render.
TurnRoom(n) == cap.slack \/ QueueRoom(n)

\* tts.stop(): playback in progress is stopped; nothing else changes.
TtsStop == [t \in Turns |-> IF tts[t] = "playing" THEN "stopped" ELSE tts[t]]

AbortCurrentSkipped == aborted

\* abortControllerRef.current?.abort()
AbortCurrent ==
    IF abortControllerRef = 0 THEN aborted ELSE [aborted EXCEPT ![abortControllerRef] = TRUE]

\* --------------------------------------------------------------- render
\* React applies the queued state updates in order and then runs the
\* effects that copy messages and isCallActive into their ref mirrors.
Render ==
    /\ ~MicrotaskPending
    /\ msgQueue # <<>> \/ statusPend # "none" \/ statusMessagePend # "none" \/ callPend # "none"
    /\ messages' = ApplyAll(messages, msgQueue, currentResponseRef)
    /\ msgQueue' = <<>>
    /\ messagesRef' = messages'
    /\ status' = IF statusPend = "none" THEN status ELSE statusPend
    /\ statusPend' = "none"
    /\ statusMessage' = IF statusMessagePend = "none" THEN statusMessage ELSE statusMessagePend
    /\ statusMessagePend' = "none"
    /\ isCallActive' = IF callPend = "none" THEN isCallActive ELSE (callPend = "true")
    /\ callPend' = "none"
    /\ isCallActiveRef' = isCallActive'
    /\ UNCHANGED <<auxVars, refVars, turnVars, envVars, marked, superseded, dropped>>

\* worker status "ready": models loaded
WorkerReady ==
    /\ ~MicrotaskPending
    /\ status = "loading" /\ statusPend = "none"
    /\ statusPend' = "ready"
    /\ statusMessagePend' = "Ready! Click 'Start Call' to begin."
    /\ UNCHANGED <<auxVars, messages, msgQueue, messagesRef, status, statusMessage,
                   isCallActive, callPend, isCallActiveRef,
                   refVars, turnVars, envVars, marked, superseded, dropped>>

\* ------------------------------------------------- handleLLMResponse entry
\* handleLLMResponse(conversationHistory) up to its first await (the fetch).
\* q is the setMessages queue as the caller left it.  When the lock is held
\* the call returns at once.
LLMIgnored(q) ==
    /\ isProcessingRef
    /\ msgQueue' = q
    /\ UNCHANGED <<refVars, statusPend, statusMessagePend, req, pc, nextTurn>>

LLMStart(conversationHistory, q) ==
    /\ ~isProcessingRef
    /\ nextTurn <= cap.turns
    /\ isProcessingRef' = TRUE
    /\ pendingUserInputRef' = Null
    /\ currentResponseRef' = <<>>
    /\ abortControllerRef' = nextTurn
    /\ statusPend' = "thinking"
    /\ statusMessagePend' = "Thinking..."
    /\ req' = [req EXCEPT ![nextTurn] = ApiMessages(conversationHistory)]
    /\ msgQueue' = Append(q, AppendUpd(AssistantMsg(nextTurn)))
    /\ pc' = [pc EXCEPT ![nextTurn] = "fetch"]
    /\ nextTurn' = nextTurn + 1

handleLLMResponse(conversationHistory, q) ==
    LLMIgnored(q) \/ LLMStart(conversationHistory, q)

\* ------------------------------------------------------ worker.onmessage
\* The k-th admitted utterance carries the character k, so that utterances
\* can be told apart; raw texts come with and without surrounding blanks.
UChar(k) == ToString(k)
RawTexts(k) == {<<UChar(k)>>, <<Space, UChar(k), Space>>, <<Space>>, <<>>}

QueuePendingKeepFirst(text) ==
    IF Truthy(pendingUserInputRef) THEN pendingUserInputRef ELSE Trim(text)

\* pendingUserInputRef.current = text.trim(): the slot is overwritten
QueuePending(text) == Trim(text)

IsUtteranceUntrimmed(text, isFinal) == isFinal /\ text # <<>>

\* if (isFinal && text && text.trim())
IsUtterance(text, isFinal) == isFinal /\ text # <<>> /\ Trim(text) # <<>>

\* case "transcript", condition false: partial, empty or blank transcript
TranscriptIgnored(text, isFinal) ==
    /\ ~IsUtterance(text, isFinal)
    /\ obs' = Observe([obs EXCEPT !.event = <<text, isFinal>>])
    /\ UNCHANGED <<reactVars, refVars, turnVars, envVars, histVars, cap, sse, patched>>

\* case "transcript", isProcessingRef.current: interrupt and queue the input
TranscriptInterrupt(text, isFinal) ==
    /\ IsUtterance(text, isFinal)
    /\ isProcessingRef
    /\ obs' = Observe([obs EXCEPT !.event = <<text, isFinal>>])
    /\ aborted' = AbortCurrent
    /\ tts' = TtsStop
    /\ pendingUserInputRef' = QueuePending(text)
    /\ nUtter' = nUtter + 1
    /\ marked' = IF abortControllerRef = 0 THEN marked ELSE marked \cup {abortControllerRef}
    /\ superseded' = IF Truthy(pendingUserInputRef)
                     THEN superseded \cup {pendingUserInputRef} ELSE superseded
    /\ UNCHANGED <<cap, sse, patched, reactVars, isProcessingRef, abortControllerRef,
                   currentResponseRef, pc, req, nDeltas, spoken, nextTurn, timers, micOn,
                   dropped>>

\* case "transcript", idle: append the user Message and start a turn
TranscriptAdmit(text, isFinal) ==
    /\ IsUtterance(text, isFinal)
    /\ ~isProcessingRef
    /\ QueueRoom(2)
    /\ LET userMessage == UserMsg(Trim(text))
       IN LLMStart(messagesRef \o <<userMessage>>, Append(msgQueue, AppendUpd(userMessage)))
    /\ nUtter' = nUtter + 1
    /\ obs' = Observe([obs EXCEPT !.event = <<text, isFinal>>])
    /\ UNCHANGED <<cap, sse, patched, messages, messagesRef, status, statusMessage, isCallActive, callPend,
                   isCallActiveRef, aborted, nDeltas, tts, spoken, timers, micOn,
                   marked, superseded, dropped>>

\* ----------------------------------------------------------- text form
\* form onSubmit; the form is rendered only outside a call.
Submit ==
    /\ ~MicrotaskPending
    /\ ~isCallActive
    /\ nUtter < cap.utter
    /\ QueueRoom(2)
    /\ \E textInput \in RawTexts(nUtter + 1) :
          /\ ~(Trim(textInput) = <<>> \/ status # "ready")
          /\ LET userMessage == UserMsg(Trim(textInput))
             IN handleLLMResponse(messagesRef \o <<userMessage>>,
                                  Append(msgQueue, AppendUpd(userMessage)))
    /\ nUtter' = nUtter + 1
    /\ UNCHANGED <<auxVars, messages, messagesRef, status, statusMessage, isCallActive, callPend,
                   isCallActiveRef, aborted, nDeltas, tts, spoken, timers, micOn,
                   marked, superseded, dropped>>

\* ------------------------------------------------------ startCall / endCall
\* The call button is rendered when status is neither loading nor idle and
\* dispatches on the rendered isCallActive.
startCall ==
    /\ ~MicrotaskPending
    /\ status \notin {"loading", "idle"} /\ ~isCallActive
    /\ QueueRoom(1)
    /\ callPend' = "true"
    /\ msgQueue' = Append(msgQueue, ResetUpd)
    /\ micOn' = TRUE
    /\ statusPend' = "listening"
    /\ statusMessagePend' = "Listening..."
    /\ UNCHANGED <<auxVars, messages, messagesRef, status, statusMessage, isCallActive,
                   isCallActiveRef, refVars, turnVars, timers, nUtter,
                   marked, superseded, dropped>>

endCall ==
    /\ ~MicrotaskPending
    /\ status \notin {"loading", "idle"} /\ isCallActive
    /\ aborted' = AbortCurrent
    /\ abortControllerRef' = 0
    /\ isProcessingRef' = FALSE
    /\ callPend' = "false"
    /\ micOn' = FALSE
    /\ tts' = TtsStop
    /\ statusPend' = "ready"
    /\ statusMessagePend' = "Ready! Click mic to start a new call."
    /\ obs' = Observe([obs EXCEPT !.hung = [utter |-> nUtter, turn |-> nextTurn]])
    /\ UNCHANGED <<cap, sse, patched, messages, msgQueue, messagesRef, status, statusMessage, isCallActive,
                   isCallActiveRef, pendingUserInputRef, currentResponseRef,
                   pc, req, nDeltas, spoken, nextTurn, timers, nUtter,
                   marked, superseded, dropped>>

\* ------------------------------------------------ handleLLMResponse steps

\* await tts.speak(cleanResponse): the text given to the synthesizer
SpeakText(rawResponse) == processResponse(rawResponse).cleanResponse

ShouldSpeakUntrimmed(cleanResponse) == cleanResponse # <<>>

\* if (cleanResponse.trim())
ShouldSpeak(cleanResponse) == Trim(cleanResponse) # <<>>

FinallyKeepsBuffer(t, q, outcome) ==
    /\ isProcessingRef' = FALSE
    /\ abortControllerRef' = 0
    /\ currentResponseRef' = currentResponseRef
    /\ pc' = [pc EXCEPT ![t] = outcome]
    /\ IF Truthy(pendingUserInputRef)
       THEN /\ pendingUserInputRef' = Null
            /\ msgQueue' = Append(q, AppendUpd(UserMsg(pendingUserInputRef)))
            /\ timers' = Append(timers, pendingUserInputRef)
       ELSE /\ pendingUserInputRef' = pendingUserInputRef
            /\ msgQueue' = q
            /\ timers' = timers

FinallyKeepsLock(t, q, outcome) ==
    /\ isProcessingRef' = isProcessingRef
    /\ abortControllerRef' = 0
    /\ currentResponseRef' = <<>>
    /\ pc' = [pc EXCEPT ![t] = outcome]
    /\ pendingUserInputRef' = pendingUserInputRef
    /\ msgQueue' = q
    /\ timers' = timers

\* finally block
Finally(t, q, outcome) ==
    /\ isProcessingRef' = FALSE
    /\ abortControllerRef' = 0
    /\ currentResponseRef' = <<>>
    /\ pc' = [pc EXCEPT ![t] = outcome]
    /\ IF Truthy(pendingUserInputRef)
       THEN /\ pendingUserInputRef' = Null
            /\ msgQueue' = Append(q, AppendUpd(UserMsg(pendingUserInputRef)))
            /\ timers' = Append(timers, pendingUserInputRef)
       ELSE /\ pendingUserInputRef' = pendingUserInputRef
            /\ msgQueue' = q
            /\ timers' = timers

\* if (isCallActiveRef.current) { setStatus("listening"); ... }
BackToListening(msg) ==
    IF isCallActiveRef
    THEN statusPend' = "listening" /\ statusMessagePend' = "Listening..."
    ELSE statusPend' = statusPend /\ statusMessagePend' = msg

CatchAbortAsError(t) ==
    /\ BackToListening("LLM error")
    /\ Finally(t, msgQueue, "aborted")
    /\ UNCHANGED <<auxVars, messages, messagesRef, status, statusMessage, isCallActive, callPend,
                   isCallActiveRef, aborted, req, nDeltas, tts, spoken, nextTurn,
                   nUtter, micOn, marked, superseded, dropped>>

\* catch block, AbortError
CatchAbort(t) ==
    /\ BackToListening(statusMessagePend)
    /\ Finally(t, msgQueue, "aborted")
    /\ UNCHANGED <<auxVars, messages, messagesRef, status, statusMessage, isCallActive, callPend,
                   isCallActiveRef, aborted, req, nDeltas, tts, spoken, nextTurn,
                   nUtter, micOn, marked, superseded, dropped>>

\* catch block, any other error
CatchError(t) ==
    /\ BackToListening("LLM error")
    /\ Finally(t, msgQueue, "failed")
    /\ UNCHANGED <<auxVars, messages, messagesRef, status, statusMessage, isCallActive, callPend,
                   isCallActiveRef, aborted, req, nDeltas, tts, spoken, nextTurn,
                   nUtter, micOn, marked, superseded, dropped>>

\* await fetch(...) resolves with an ok response that has a body
FetchOk(t) ==
    /\ ~MicrotaskPending
    /\ pc[t] = "fetch" /\ ~aborted[t]
    /\ pc' = [pc EXCEPT ![t] = "read"]
    /\ UNCHANGED <<auxVars, reactVars, refVars, aborted, req, nDeltas, tts, spoken, nextTurn,
                   envVars, marked, superseded, dropped>>

\* await fetch(...) rejects, or the response is not ok, or it has no body
FetchFail(t) ==
    /\ ~MicrotaskPending
    /\ pc[t] = "fetch" /\ ~aborted[t]
    /\ TurnRoom(1)
    /\ CatchError(t)

\* await fetch(...) rejects with AbortError
FetchAborted(t) ==
    /\ pc[t] = "fetch" /\ aborted[t]
    /\ TurnRoom(1)
    /\ CatchAbort(t)

\* reader.read() delivers one frame whose delta.content is non-empty.  The
\* abort signal is a request to the transport: a read may still deliver
\* after it.
ReadDelta(t) ==
    /\ ~MicrotaskPending
    /\ pc[t] = "read"
    /\ nDeltas[t] < cap.deltas
    /\ TurnRoom(1)
    /\ \E content \in cap.fragments :
          /\ currentResponseRef' = currentResponseRef \o content
          /\ messages' = InPlaceMsgs(messages, ContentUpd, currentResponseRef \o content)
          /\ messagesRef' = InPlaceMsgs(messagesRef, ContentUpd, currentResponseRef \o content)
          /\ obs' = Observe([obs EXCEPT !.raw[t] = @ \o content])
    /\ msgQueue' = InPlaceQueue(ContentUpd)
    /\ nDeltas' = [nDeltas EXCEPT ![t] = @ + 1]
    /\ UNCHANGED <<cap, sse, patched, status, statusPend, statusMessage,
                   statusMessagePend, isCallActive, callPend, isCallActiveRef,
                   isProcessingRef, abortControllerRef, pendingUserInputRef,
                   pc, aborted, req, tts, spoken, nextTurn, envVars,
                   marked, superseded, dropped>>

\* reader.read() rejects with AbortError
ReadAborted(t) ==
    /\ cap.leaky => ~MicrotaskPending
    /\ pc[t] = "read" /\ aborted[t]
    /\ TurnRoom(1)
    /\ CatchAbort(t)

\* reader.read() rejects with a network error
ReadError(t) ==
    /\ ~MicrotaskPending
    /\ pc[t] = "read" /\ ~aborted[t]
    /\ TurnRoom(1)
    /\ CatchError(t)

\* reader.read() reports done, clean response has text: update thinking,
\* then await tts.speak(cleanResponse)
FinalizeSpeak(t) ==
    /\ ~MicrotaskPending
    /\ pc[t] = "read"
    /\ TurnRoom(1)
    /\ LET r == processResponse(currentResponseRef)
       IN /\ ShouldSpeak(r.cleanResponse)
          /\ IF Truthy(r.thinking)
             THEN /\ messages' = InPlaceMsgs(messages, ThinkingUpd(r.thinking), currentResponseRef)
                  /\ messagesRef' = InPlaceMsgs(messagesRef, ThinkingUpd(r.thinking), currentResponseRef)
                  /\ msgQueue' = InPlaceQueue(ThinkingUpd(r.thinking))
             ELSE UNCHANGED <<messages, messagesRef, msgQueue>>
          /\ spoken' = [spoken EXCEPT ![t] = SpeakText(currentResponseRef)]
    /\ statusPend' = "speaking"
    /\ statusMessagePend' = "Speaking..."
    /\ tts' = [tts EXCEPT ![t] = "playing"]
    /\ pc' = [pc EXCEPT ![t] = "speak"]
    /\ UNCHANGED <<auxVars, status, statusMessage, isCallActive, callPend,
                   isCallActiveRef, refVars, aborted, req, nDeltas, nextTurn, envVars,
                   marked, superseded, dropped>>

\* reader.read() reports done, clean response is blank: no speech, finally
FinalizeSilent(t) ==
    /\ ~MicrotaskPending
    /\ pc[t] = "read"
    /\ TurnRoom(2)
    /\ LET r == processResponse(currentResponseRef)
       IN /\ ~ShouldSpeak(r.cleanResponse)
          /\ IF Truthy(r.thinking)
             THEN /\ messages' = InPlaceMsgs(messages, ThinkingUpd(r.thinking), currentResponseRef)
                  /\ messagesRef' = InPlaceMsgs(messagesRef, ThinkingUpd(r.thinking), currentResponseRef)
                  /\ Finally(t, InPlaceQueue(ThinkingUpd(r.thinking)), "silent")
             ELSE /\ UNCHANGED <<messages, messagesRef>>
                  /\ Finally(t, msgQueue, "silent")
    /\ UNCHANGED <<auxVars, status, statusPend, statusMessage,
                   statusMessagePend, isCallActive, callPend, isCallActiveRef,
                   aborted, req, nDeltas, tts, spoken, nextTurn, nUtter, micOn,
                   marked, superseded, dropped>>

\* await tts.speak(...) settles (playback finished, or stopped by tts.stop())
SpeakDone(t) ==
    /\ ~MicrotaskPending
    /\ pc[t] = "speak"
    /\ TurnRoom(1)
    /\ tts' = [tts EXCEPT ![t] = "none"]
    /\ BackToListening(statusMessagePend)
    /\ Finally(t, msgQueue, "spoke")
    /\ UNCHANGED <<auxVars, messages, messagesRef, status, statusMessage, isCallActive, callPend,
                   isCallActiveRef, aborted, req, nDeltas, spoken, nextTurn,
                   nUtter, micOn, marked, superseded, dropped>>

\* setTimeout(() => handleLLMResponse([...messagesRef.current, userMessage]), 0)
\* Timers of equal delay run in the order they were set.
TimerStart ==
    /\ ~MicrotaskPending
    /\ timers # <<>>
    /\ QueueRoom(1)
    /\ LLMStart(messagesRef \o <<UserMsg(Head(timers))>>, msgQueue)
    /\ timers' = Tail(timers)
    /\ UNCHANGED <<auxVars, messages, messagesRef, status, statusMessage, isCallActive, callPend,
                   isCallActiveRef, aborted, nDeltas, tts, spoken, nUtter, micOn,
                   marked, superseded, dropped>>

TimerIgnored ==
    /\ ~MicrotaskPending
    /\ timers # <<>>
    /\ LLMIgnored(msgQueue)
    /\ timers' = Tail(timers)
    /\ dropped' = dropped \cup {Head(timers)}
    /\ UNCHANGED <<auxVars, messages, messagesRef, status, statusMessage, isCallActive, callPend,
                   isCallActiveRef, aborted, nDeltas, tts, spoken, nUtter, micOn,
                   marked, superseded>>

\* ------------------------------------------------------------------ spec
TranscriptIgnoredEv ==
    /\ ~MicrotaskPending /\ micOn /\ nUtter < cap.utter
    /\ \E text \in RawTexts(nUtter + 1), isFinal \in BOOLEAN : TranscriptIgnored(text, isFinal)

TranscriptInterruptEv ==
    /\ ~MicrotaskPending /\ micOn /\ nUtter < cap.utter
    /\ \E text \in RawTexts(nUtter + 1), isFinal \in BOOLEAN : TranscriptInterrupt(text, isFinal)

TranscriptAdmitEv ==
    /\ ~MicrotaskPending /\ micOn /\ nUtter < cap.utter
    /\ \E text \in RawTexts(nUtter + 1), isFinal \in BOOLEAN : TranscriptAdmit(text, isFinal)

Next ==
    \/ Render
    \/ WorkerReady
    \/ TranscriptIgnoredEv
    \/ TranscriptInterruptEv
    \/ TranscriptAdmitEv
    \/ Submit
    \/ startCall
    \/ endCall
    \/ \E t \in Turns : FetchOk(t)
    \/ \E t \in Turns : FetchFail(t)
    \/ \E t \in Turns : FetchAborted(t)
    \/ \E t \in Turns : ReadDelta(t)
    \/ \E t \in Turns : ReadAborted(t)
    \/ \E t \in Turns : ReadError(t)
    \/ \E t \in Turns : FinalizeSpeak(t)
    \/ \E t \in Turns : FinalizeSilent(t)
    \/ \E t \in Turns : SpeakDone(t)
    \/ TimerStart
    \/ TimerIgnored

Spec == Init /\ [][Next]_vars

\* Fair scheduling: every pending fetch, stream read and speak call of a
\* turn eventually settles, React eventually renders and a timer that was
\* set eventually fires.
TurnStep(t) ==
    \/ FetchOk(t) \/ FetchFail(t) \/ FetchAborted(t)
    \/ ReadDelta(t) \/ ReadAborted(t) \/ ReadError(t)
    \/ FinalizeSpeak(t) \/ FinalizeSilent(t)
    \/ SpeakDone(t)

InitFair ==
    /\ InitState /\ AuxIdle
    /\ cap = [turns |-> FairTurns, utter |-> FairUtter, leaky |-> FALSE, observe |-> FALSE,
              deltas |-> FairDeltas, fragments |-> {<<"a">>}, slack |-> TRUE]

Fairness ==
    /\ WF_vars(Render)
    /\ WF_vars(TimerStart \/ TimerIgnored)
    /\ \A t \in Turns : WF_vars(TurnStep(t))

SpecFair == InitFair /\ [][Next]_vars /\ Fairness

\* The transport may go on delivering after abort() (same bounds, the turn
\* steps and the events that start, interrupt and cancel turns).
\* The full controller under observation, for what happens after endCall.
InitHangup ==
    /\ InitState /\ AuxIdle
    /\ cap = [turns |-> HangupTurns, utter |-> HangupUtter, leaky |-> FALSE, observe |-> TRUE,
              deltas |-> FairDeltas, fragments |-> {<<"a">>}, slack |-> FALSE]

SpecHangup == InitHangup /\ [][Next]_vars

InitLeaky ==
    /\ InitState /\ AuxIdle
    /\ cap = [turns |-> MaxTurns, utter |-> MaxUtter, leaky |-> TRUE, observe |-> FALSE,
              deltas |-> MaxDeltas, fragments |-> Fragments, slack |-> FALSE]

NextLeaky ==
    \/ Render
    \/ WorkerReady
    \/ TranscriptInterruptEv
    \/ TranscriptAdmitEv
    \/ startCall
    \/ \E t \in Turns : FetchOk(t)
    \/ \E t \in Turns : FetchAborted(t)
    \/ \E t \in Turns : ReadDelta(t)
    \/ \E t \in Turns : ReadAborted(t)
    \/ \E t \in Turns : FinalizeSpeak(t)
    \/ \E t \in Turns : FinalizeSilent(t)
    \/ \E t \in Turns : SpeakDone(t)
    \/ TimerStart

SpecLeaky == InitLeaky /\ [][NextLeaky]_vars

\* Deferred starts racing with new utterances: no stream content, larger
\* bounds on turns and utterances.
InitDeferred ==
    /\ InitState /\ AuxIdle
    /\ cap = [turns |-> DeferredTurns, utter |-> DeferredUtter, leaky |-> FALSE,
              observe |-> FALSE,
              deltas |-> MaxDeltas, fragments |-> Fragments, slack |-> FALSE]

NextDeferred ==
    \/ Render
    \/ WorkerReady
    \/ TranscriptInterruptEv
    \/ TranscriptAdmitEv
    \/ startCall
    \/ \E t \in Turns : FetchOk(t)
    \/ \E t \in Turns : FetchAborted(t)
    \/ \E t \in Turns : ReadAborted(t)
    \/ TimerStart
    \/ TimerIgnored

SpecDeferred == InitDeferred /\ [][NextDeferred]_vars

\* Typed inputs around a call that is started and ended: three observed
\* turns, no interrupts and no transport errors.
InitOverlap ==
    /\ InitState /\ AuxIdle
    /\ cap = [turns |-> OverlapTurns, utter |-> OverlapUtter, leaky |-> FALSE,
              observe |-> TRUE, deltas |-> OverlapDeltas, fragments |-> {<<"a">>}, slack |-> FALSE]

NextOverlap ==
    \/ Render
    \/ WorkerReady
    \/ Submit
    \/ startCall
    \/ endCall
    \/ \E t \in Turns : FetchOk(t)
    \/ \E t \in Turns : FetchAborted(t)
    \/ \E t \in Turns : ReadDelta(t)
    \/ \E t \in Turns : ReadAborted(t)
    \/ \E t \in Turns : FinalizeSpeak(t)
    \/ \E t \in Turns : FinalizeSilent(t)
    \/ \E t \in Turns : SpeakDone(t)

SpecOverlap == InitOverlap /\ [][NextOverlap]_vars

\* One turn under observation: obs records the text the turn received and
\* every transcript event, admitted or not.
InitObserved ==
    /\ InitState /\ AuxIdle
    /\ cap = [turns |-> ObsTurns, utter |-> ObsUtter, leaky |-> FALSE, observe |-> TRUE,
              deltas |-> MaxDeltas, fragments |-> Fragments, slack |-> FALSE]

NextObserved ==
    \/ Render
    \/ WorkerReady
    \/ TranscriptIgnoredEv
    \/ TranscriptInterruptEv
    \/ TranscriptAdmitEv
    \/ Submit
    \/ startCall
    \/ endCall
    \/ \E t \in Turns : FetchOk(t)
    \/ \E t \in Turns : FetchFail(t)
    \/ \E t \in Turns : FetchAborted(t)
    \/ \E t \in Turns : ReadDelta(t)
    \/ \E t \in Turns : ReadAborted(t)
    \/ \E t \in Turns : ReadError(t)
    \/ \E t \in Turns : FinalizeSpeak(t)
    \/ \E t \in Turns : FinalizeSilent(t)
    \/ \E t \in Turns : SpeakDone(t)

SpecObserved == InitObserved /\ [][NextObserved]_vars

\* One observed turn whose answer is made of sentences.
InitSpeech ==
    /\ InitState /\ AuxIdle
    /\ cap = [turns |-> ObsTurns, utter |-> ObsUtter, leaky |-> FALSE, observe |-> TRUE,
              deltas |-> MaxDeltas, fragments |-> SentenceFragments, slack |-> FALSE]

SpecSpeech == InitSpeech /\ [][NextObserved]_vars

\* ------------------------------------------------------------ stream loop
\* The body of a response as a sequence of tokens: "P" is the text "data: ",
\* "N" a newline, "$" the text "[DONE]", "a" and "b" a JSON object whose
\* choices[0].delta.content is "a" or "b", "e" a JSON object without content,
\* "x" text that is not JSON, Space a blank.  A read delivers any non-empty
\* run of the tokens not yet delivered.
Newline == "N"
DataPrefix == "P"
DoneText == <<"$">>

LineShapes ==
    { <<DataPrefix, "a">>, <<DataPrefix, "b">>, <<DataPrefix, "$">>, <<DataPrefix, "x">>,
      <<DataPrefix, "e">>, <<Space, DataPrefix, "a", Space>>, <<"a">>, <<>> }

RECURSIVE JoinLines(_)
JoinLines(ls) ==
    IF ls = <<>> THEN <<>>
    ELSE IF Len(ls) = 1 THEN Head(ls)
    ELSE Head(ls) \o <<Newline>> \o JoinLines(Tail(ls))

\* every stream of 1..MaxFrames lines, the last one terminated or not
Streams ==
    UNION { { JoinLines(ls) : ls \in [1..k -> LineShapes] } \cup
            { JoinLines(ls) \o <<Newline>> : ls \in [1..k -> LineShapes] } : k \in 1..MaxFrames }

\* buffer.split("\n")
RECURSIVE Split(_)
Split(s) ==
    IF \A i \in 1..Len(s) : s[i] # Newline THEN <<s>>
    ELSE LET i == CHOOSE j \in 1..Len(s) : s[j] = Newline /\ \A k \in 1..(j - 1) : s[k] # Newline
         IN <<SubSeq(s, 1, i - 1)>> \o Split(SubSeq(s, i + 1, Len(s)))

\* the lines without lines.pop(): the unfinished last line is handled too
CompleteLinesUnpopped(s) == Split(s)

\* lines = buffer.split("\n"); buffer = lines.pop() || ""
CompleteLines(s) == LET pieces == Split(s) IN SubSeq(pieces, 1, Len(pieces) - 1)
Remainder(s) == LET pieces == Split(s) IN pieces[Len(pieces)]

\* JSON.parse(data) succeeds
Parses(data) == LET d == Trim(data) IN Len(d) = 1 /\ d[1] \in {"a", "b", "e"}

\* parsed.choices?.[0]?.delta?.content of a frame; nothing when the payload
\* does not parse (the catch logs and goes on) or carries no content
FrameContent(data) ==
    LET d == Trim(data) IN IF Len(d) = 1 /\ d[1] \in {"a", "b"} THEN d ELSE <<>>

\* for (const line of lines) { ... }: the text after the lines are handled
RECURSIVE ProcessLinesStopOnError(_, _)
ProcessLinesStopOnError(lines, text) ==
    IF lines = <<>> THEN text
    ELSE LET trimmedLine == Trim(Head(lines))
         IN IF trimmedLine = <<>> THEN ProcessLinesStopOnError(Tail(lines), text)
            ELSE IF Head(trimmedLine) # DataPrefix THEN ProcessLinesStopOnError(Tail(lines), text)
            ELSE IF Tail(trimmedLine) = DoneText THEN text
            ELSE IF ~Parses(Tail(trimmedLine)) THEN text
            ELSE ProcessLinesStopOnError(Tail(lines), text \o FrameContent(Tail(trimmedLine)))

RECURSIVE ProcessLines(_, _)
ProcessLines(lines, text) ==
    IF lines = <<>> THEN text
    ELSE LET trimmedLine == Trim(Head(lines))
         IN IF trimmedLine = <<>> THEN ProcessLines(Tail(lines), text)
            ELSE IF Head(trimmedLine) # DataPrefix THEN ProcessLines(Tail(lines), text)
            ELSE IF Tail(trimmedLine) = DoneText THEN text
            ELSE ProcessLines(Tail(lines), text \o FrameContent(Tail(trimmedLine)))

\* a line with the data prefix and the payload [DONE]
IsDoneLine(line) ==
    LET trimmedLine == Trim(line)
    IN trimmedLine # <<>> /\ Head(trimmedLine) = DataPrefix /\ Tail(trimmedLine) = DoneText

\* const { done, value } = await reader.read() with done false: one pass of
\* the while loop
StreamRead ==
    /\ sse.phase = "reading"
    /\ \E n \in 1..(Len(sse.stream) - sse.pos) :
          LET buffer == sse.buffer \o SubSeq(sse.stream, sse.pos + 1, sse.pos + n)
              lines == CompleteLines(buffer)
          IN sse' = [sse EXCEPT !.pos = @ + n,
                                !.buffer = Remainder(buffer),
                                !.text = ProcessLines(lines, @),
                                !.sawDone = @ \/ \E i \in 1..Len(lines) : IsDoneLine(lines[i])]
    /\ UNCHANGED <<reactVars, refVars, turnVars, envVars, histVars, cap, obs, patched>>

\* reader.read() reports done: if (done) break, and the turn finalizes
StreamEnd ==
    /\ sse.phase = "reading" /\ sse.pos = Len(sse.stream)
    /\ sse' = [sse EXCEPT !.phase = "eof"]
    /\ UNCHANGED <<reactVars, refVars, turnVars, envVars, histVars, cap, obs, patched>>

\* reader.read() rejects with AbortError: the catch block, no finalize
StreamCancel ==
    /\ sse.phase = "reading"
    /\ sse' = [sse EXCEPT !.phase = "cancelled"]
    /\ UNCHANGED <<reactVars, refVars, turnVars, envVars, histVars, cap, obs, patched>>

InitStream ==
    /\ InitState
    /\ cap = [turns |-> MaxTurns, utter |-> MaxUtter, leaky |-> FALSE, observe |-> FALSE,
              deltas |-> MaxDeltas, fragments |-> Fragments, slack |-> FALSE]
    /\ obs = ObsInit /\ patched = PatchedIdle
    /\ \E s \in Streams : sse = [SseIdle EXCEPT !.stream = s, !.phase = "reading"]

NextStream == StreamRead \/ StreamEnd \/ StreamCancel

SpecStream == InitStream /\ [][NextStream]_vars

\* ------------------------------------- server-side stream transformer
\* callLMStudioStreaming: the ReadableStream that turns the upstream frames
\* into the frames of the chat route.  sse.stream is the upstream body
\* (sse.body FALSE: the response has no body), sse.out the frames enqueued
\* so far, sse.closed the number of controller.close() calls.
TextFrame(content) == <<"text", content>>
DoneFrame == <<"done">>

\* for (const line of lines) { ... } with break in place of continue
RECURSIVE ServerLinesBreakOnDone(_, _)
ServerLinesBreakOnDone(lines, out) ==
    IF lines = <<>> THEN out
    ELSE LET line == Head(lines)
         IN IF line = <<>> \/ Head(line) # DataPrefix THEN ServerLinesBreakOnDone(Tail(lines), out)
            ELSE IF Tail(line) = DoneText THEN Append(out, DoneFrame)
            ELSE IF Parses(Tail(line)) /\ FrameContent(Tail(line)) # <<>>
                 THEN ServerLinesBreakOnDone(Tail(lines), Append(out, TextFrame(FrameContent(Tail(line)))))
                 ELSE ServerLinesBreakOnDone(Tail(lines), out)

\* for (const line of lines) { ... }: the frames enqueued after the lines
\* are handled; the line is not trimmed
RECURSIVE ServerLines(_, _)
ServerLines(lines, out) ==
    IF lines = <<>> THEN out
    ELSE LET line == Head(lines)
         IN IF line = <<>> \/ Head(line) # DataPrefix THEN ServerLines(Tail(lines), out)
            ELSE IF Tail(line) = DoneText THEN ServerLines(Tail(lines), Append(out, DoneFrame))
            ELSE IF Parses(Tail(line)) /\ FrameContent(Tail(line)) # <<>>
                 THEN ServerLines(Tail(lines), Append(out, TextFrame(FrameContent(Tail(line)))))
                 ELSE ServerLines(Tail(lines), out)

\* const reader = response.body?.getReader(), reader present
ServerStart ==
    /\ sse.phase = "start" /\ sse.body
    /\ sse' = [sse EXCEPT !.phase = "reading"]
    /\ UNCHANGED <<reactVars, refVars, turnVars, envVars, histVars, cap, obs, patched>>

\* if (!reader) { controller.close(); return }
ServerNoBody ==
    /\ sse.phase = "start" /\ ~sse.body
    /\ sse' = [sse EXCEPT !.closed = @ + 1, !.phase = "closed"]
    /\ UNCHANGED <<reactVars, refVars, turnVars, envVars, histVars, cap, obs, patched>>

\* one pass of the while loop: a read that delivers bytes
ServerRead ==
    /\ sse.phase = "reading"
    /\ \E n \in 1..(Len(sse.stream) - sse.pos) :
          LET buffer == sse.buffer \o SubSeq(sse.stream, sse.pos + 1, sse.pos + n)
              lines == CompleteLines(buffer)
          IN sse' = [sse EXCEPT !.pos = @ + n,
                                !.buffer = Remainder(buffer),
                                !.out = ServerLines(lines, @)]
    /\ UNCHANGED <<reactVars, refVars, turnVars, envVars, histVars, cap, obs, patched>>

\* reader.read() reports done: break, controller.close()
ServerEnd ==
    /\ sse.phase = "reading" /\ sse.pos = Len(sse.stream)
    /\ sse' = [sse EXCEPT !.closed = @ + 1, !.phase = "closed"]
    /\ UNCHANGED <<reactVars, refVars, turnVars, envVars, histVars, cap, obs, patched>>

\* reader.read() rejects: start() rejects and the output is errored, not
\* closed
ServerError ==
    /\ sse.phase = "reading"
    /\ sse' = [sse EXCEPT !.phase = "errored"]
    /\ UNCHANGED <<reactVars, refVars, turnVars, envVars, histVars, cap, obs, patched>>

InitServer ==
    /\ InitState
    /\ cap = [turns |-> MaxTurns, utter |-> MaxUtter, leaky |-> FALSE, observe |-> FALSE,
              deltas |-> MaxDeltas, fragments |-> Fragments, slack |-> FALSE]
    /\ obs = ObsInit /\ patched = PatchedIdle
    /\ \/ \E s \in Streams : sse = [SseIdle EXCEPT !.stream = s, !.phase = "start"]
       \/ sse = [SseIdle EXCEPT !.body = FALSE, !.phase = "start"]

NextServer == ServerStart \/ ServerNoBody \/ ServerRead \/ ServerEnd \/ ServerError

SpecServer == InitServer /\ [][NextServer]_vars

\* ------------------------------------------- reasoning_content patch
\* delta.content and delta.reasoning_content of one frame: absent (Null),
\* the empty string, or a fragment.
ContentValues ==
    {Null, <<>>, <<"a">>, <<"c">>, <<Space>>, StartMarker \o <<"b">>, EndMarker \o <<"c">>}
ReasoningValues == {Null, <<>>, <<"r">>, <<"s">>, <<Space>>}
Deltas == [content : ContentValues, reasoning_content : ReasoningValues]

PatchedApplyExclusive(p, delta) ==
    IF Truthy(delta.reasoning_content)
    THEN [p EXCEPT !.reasoning = @ \o delta.reasoning_content]
    ELSE IF Truthy(delta.content) THEN [p EXCEPT !.content = @ \o delta.content]
    ELSE p

\* if (content || reasoningContent) { if (content) currentContentRef.current
\* += content; if (reasoningContent) currentReasoningRef.current +=
\* reasoningContent; ... }
PatchedApply(p, delta) ==
    IF Truthy(delta.content) \/ Truthy(delta.reasoning_content)
    THEN [p EXCEPT !.content = IF Truthy(delta.content) THEN @ \o delta.content ELSE @,
                   !.reasoning = IF Truthy(delta.reasoning_content)
                                 THEN @ \o delta.reasoning_content ELSE @]
    ELSE p

PatchedResolveByMarkers(p, delta) ==
    IF Truthy(delta.content) \/ Truthy(delta.reasoning_content)
    THEN [p EXCEPT !.thinking = processResponse(p.content).thinking,
                   !.clean = processResponse(p.content).cleanResponse]
    ELSE p

\* "Determine thinking and clean response based on available data" and the
\* setMessages call that follows; p holds the accumulators after the delta
\* was added.  Nothing is resolved for a delta that carries no fragment.
PatchedResolve(p, delta) ==
    IF Truthy(delta.content) \/ Truthy(delta.reasoning_content)
    THEN IF Truthy(delta.reasoning_content) \/ Truthy(p.reasoning)
         THEN [p EXCEPT !.thinking = p.reasoning, !.clean = p.content]
         ELSE IF Truthy(delta.content)
         THEN [p EXCEPT !.thinking = processResponse(p.content).thinking,
                        !.clean = processResponse(p.content).cleanResponse]
         ELSE [p EXCEPT !.thinking = Null, !.clean = <<>>]
    ELSE p

\* one parsed frame in the patched stream loop
PatchedDelta ==
    /\ patched.phase = "streaming"
    /\ patched.n < MaxPatchedDeltas
    /\ \E delta \in Deltas :
          patched' = [PatchedResolve(PatchedApply(patched, delta), delta)
                        EXCEPT !.n = @ + 1, !.delta = delta]
    /\ UNCHANGED <<reactVars, refVars, turnVars, envVars, histVars, cap, obs, sse>>

\* "Final processing after stream completes" and the final setMessages
PatchedFinal ==
    /\ patched.phase = "streaming"
    /\ LET finalThinking ==
               IF Truthy(patched.reasoning) THEN patched.reasoning
               ELSE IF Truthy(patched.content) THEN processResponse(patched.content).thinking
               ELSE Null
           finalCleanResponse == patched.content
       IN patched' = [patched EXCEPT !.thinking = finalThinking,
                                     !.clean = finalCleanResponse,
                                     !.phase = "final"]
    /\ UNCHANGED <<reactVars, refVars, turnVars, envVars, histVars, cap, obs, sse>>

InitPatched ==
    /\ InitState
    /\ cap = [turns |-> MaxTurns, utter |-> MaxUtter, leaky |-> FALSE, observe |-> FALSE,
              deltas |-> MaxDeltas, fragments |-> Fragments, slack |-> FALSE]
    /\ obs = ObsInit /\ sse = SseIdle
    /\ patched = [PatchedIdle EXCEPT !.phase = "streaming"]

NextPatched == PatchedDelta \/ PatchedFinal

SpecPatched == InitPatched /\ [][NextPatched]_vars

\* ------------------------------------------------- resolve functions
\* processResponseEnhanced(rawResponse, reasoningContent?)
processResponseEnhanced(rawResponse, reasoningContent) ==
    IF Truthy(reasoningContent)
    THEN [thinking |-> Trim(reasoningContent), cleanResponse |-> Trim(rawResponse)]
    ELSE processResponse(rawResponse)

\* Arguments: every text of up to MaxPieces pieces, a piece being a letter,
\* a blank or a marker; the optional reasoning text absent, empty or given.
Pieces == {<<"a">>, <<Space>>, StartMarker, EndMarker}

RECURSIVE Concat(_)
Concat(ps) == IF ps = <<>> THEN <<>> ELSE Head(ps) \o Concat(Tail(ps))

RawResponses == UNION { { Concat(ps) : ps \in [1..k -> Pieces] } : k \in 0..MaxPieces }
ReasoningArgs == {Null, <<>>, <<"r">>, <<Space, "r", Space>>}

\* processResponse(rawResponse) is called and returns
ProcessResponseCall ==
    /\ patched.phase = "call" /\ patched.fn = "none"
    /\ patched' = [patched EXCEPT !.fn = "processResponse",
                                  !.result = processResponse(patched.args[1])]
    /\ UNCHANGED <<reactVars, refVars, turnVars, envVars, histVars, cap, obs, sse>>

\* processResponseEnhanced(rawResponse, reasoningContent) is called and returns
EnhancedCall ==
    /\ patched.phase = "call" /\ patched.fn = "none"
    /\ patched' = [patched EXCEPT !.fn = "processResponseEnhanced",
                                  !.result = processResponseEnhanced(patched.args[1],
                                                                     patched.args[2])]
    /\ UNCHANGED <<reactVars, refVars, turnVars, envVars, histVars, cap, obs, sse>>

\* Either a call of a resolve function is about to be made, or a response
\* is about to be streamed to the patched handler.
InitResolve ==
    \/ InitPatched
    \/ /\ InitState
       /\ cap = [turns |-> MaxTurns, utter |-> MaxUtter, leaky |-> FALSE, observe |-> FALSE,
              deltas |-> MaxDeltas, fragments |-> Fragments, slack |-> FALSE]
       /\ obs = ObsInit /\ sse = SseIdle
       /\ \E rawResponse \in RawResponses, reasoningContent \in ReasoningArgs :
             patched = [PatchedIdle EXCEPT !.phase = "call",
                                           !.args = <<rawResponse, reasoningContent>>]

NextResolve == ProcessResponseCall \/ EnhancedCall \/ PatchedDelta \/ PatchedFinal

SpecResolve == InitResolve /\ [][NextResolve]_vars

\* ---------------------------------------------------------------- claims
LiveTurns == {t \in Turns : Live(t)}

\* The assistant Message of turn t in a message list, as a set (empty while
\* the placeholder is not rendered, or after the list was reset).
MsgOfTurn(msgs, t) == {msgs[i] : i \in {j \in 1..Len(msgs) : msgs[j].turn = t}}

\* The message history with the queued updates applied.
History == ApplyAll(messages, msgQueue, currentResponseRef)

\* The text of the most recent admitted input.
LastInput == IF nUtter = 0 THEN Null ELSE <<UChar(nUtter)>>

\* C1: at most one turn is active at any time: never more than one invocation
\* of handleLLMResponse has taken the lock and not yet run its finally block.
C1_AtMostOneActiveTurn == Cardinality(LiveTurns) <= 1

\* C2: once a turn was cancelled by an interrupting utterance, no later step
\* changes the content or the thinking of its assistant Message.
\* (The value of a Message is taken with the queued updates applied, so that
\* an update queued before the cancellation counts as made before it.)
C2_CancelledMessageFrozen ==
    [][\A t \in marked :
         \A m \in MsgOfTurn(History, t) :
           \A n \in MsgOfTurn(History', t) :
              n.content = m.content /\ n.thinking = m.thinking]_vars

\* C3: no delta is applied by a turn after it was marked cancelled, also when
\* the transport keeps delivering after the abort signal.
C3_NoDeltaAfterCancel ==
    [][\A t \in marked : nDeltas'[t] = nDeltas[t]]_vars

\* C4: after an interrupting utterance was admitted during a turn, tts.speak
\* is never called with that turn's text, whatever the transport does.
C4_NoSpeakAfterCancel ==
    [][\A t \in marked : spoken'[t] = spoken[t]]_vars

\* C5: a final non-empty utterance arriving while a turn is active requests
\* abort of the in-flight request, stops the synthesizer and sets PendingInput
\* to the trimmed text; the step appends no Message and starts no request.
InterruptStep ==
    /\ isProcessingRef
    /\ pendingUserInputRef' # pendingUserInputRef
    /\ pendingUserInputRef' # Null

ContentsOf(list) == {list[i].content : i \in 1..Len(list)}
QueuedContents == {msgQueue[i].msg.content : i \in {j \in 1..Len(msgQueue) : msgQueue[j].kind = "append"}}

C6_PendingSingleSlot ==
    \A u \in superseded :
        /\ pendingUserInputRef # u
        /\ u \notin {timers[i] : i \in 1..Len(timers)}
        /\ u \notin ContentsOf(messages) \cup QueuedContents
        /\ \A t \in Turns : u \notin ContentsOf(req[t])

\* two utterances interrupted the same turn and the turn of the survivor
\* has been started with the survivor as last message of its request
C6_Witness ==
    /\ superseded # {}
    /\ \E t \in Turns :
          /\ t > 1 /\ req[t] # <<>>
          /\ req[t][Len(req[t])].content \notin superseded
          /\ \E u \in superseded : req[t][Len(req[t])].content = <<UChar(nUtter)>> /\ u # <<UChar(nUtter)>>

\* C7: after turn A was interrupted by B and no further utterance arrives, a
\* turn for B starts on its own.  Only B's deferred start issues B's request,
\* so the deferred start of the most recent utterance is never dropped while
\* no request ending with that utterance exists.
C7_PendingTurnStarts ==
    ~(/\ LastInput \in dropped
      /\ \A t \in Turns : req[t] = <<>> \/ req[t][Len(req[t])].content # LastInput)

\* C8: admitting an utterance while idle appends the user Message and the
\* empty placeholder and issues exactly one request, whose messages are the
\* full prior history followed by the new user Message.
IdleAdmitStep == nUtter' = nUtter + 1 /\ nextTurn' = nextTurn + 1

C8_IdleAdmitRequest ==
    [][IdleAdmitStep =>
         LET text == <<UChar(nUtter + 1)>>
         IN /\ msgQueue' = msgQueue \o <<AppendUpd(UserMsg(text)), AppendUpd(AssistantMsg(nextTurn))>>
            /\ \A t \in Turns : t # nextTurn => req'[t] = req[t]
            /\ req'[nextTurn] = ApiMessages(History) \o <<[role |-> "user", content |-> text]>>]_vars

\* C9: when the stream of a turn is exhausted without cancellation, the
\* assistant Message ends with content equal to the clean text (the text
\* given to the synthesizer, or blank text when nothing is spoken), without
\* any marker section.
Finalized(t) == pc[t] \in {"speak", "spoke", "silent"}

C9_FinalContentIsClean ==
    \A t \in Turns :
        (Finalized(t) /\ ~aborted[t] /\ NothingPending) =>
            \A m \in MsgOfTurn(messages, t) :
                /\ pc[t] \in {"speak", "spoke"} => m.content = spoken[t]
                /\ pc[t] = "silent" => Trim(m.content) = <<>>
                /\ IndexOf(m.content, StartMarker) = -1

\* C10 (as claimed): at finalize the synthesizer is invoked if and only if
\* the clean text is non-empty, once and with that text; when it is empty the
\* lock is released without a speak call.
FinalizeStep(t) == pc[t] = "read" /\ pc'[t] \in {"speak", "silent"}

C10_SpeakIffCleanNonEmpty ==
    [][\A t \in Turns : FinalizeStep(t) =>
         LET clean == processResponse(currentResponseRef).cleanResponse
         IN IF clean # <<>>
            THEN pc'[t] = "speak" /\ spoken[t] = Null /\ spoken'[t] = clean
            ELSE pc'[t] = "silent" /\ spoken'[t] = spoken[t] /\ ~isProcessingRef']_vars

\* C10 (amended): the synthesizer is invoked if and only if the clean text
\* has a non-blank character, once and with that clean text; otherwise the
\* lock is released in the same step without a speak call.
C10_SpeakIffCleanNotBlank ==
    [][\A t \in Turns : FinalizeStep(t) =>
         LET clean == processResponse(currentResponseRef).cleanResponse
         IN IF \E i \in 1..Len(clean) : clean[i] # Space
            THEN /\ pc'[t] = "speak" /\ spoken[t] = Null /\ spoken'[t] = clean
                 /\ tts'[t] = "playing" /\ isProcessingRef' = isProcessingRef
            ELSE /\ pc'[t] = "silent" /\ spoken'[t] = spoken[t] /\ tts' = tts
                 /\ ~isProcessingRef']_vars

\* a turn whose answer was blank but not empty ended without speech
C10_Witness ==
    \E t \in Turns : pc[t] = "silent" /\ nDeltas[t] > 0 /\ spoken[t] = Null /\ ~isProcessingRef

\* C11: an uninterrupted turn whose deltas carry only marker-free answer
\* fragments ends with Message content equal to the concatenation of the
\* fragments, thinking null, and that same text handed to the synthesizer
\* once.
NoMarkers(s) == IndexOf(s, StartMarker) = -1 /\ IndexOf(s, EndMarker) = -1
Ended(t) == pc[t] \in {"spoke", "silent"}
PlainTurn(t) ==
    /\ Ended(t) /\ ~aborted[t] /\ t \notin marked
    /\ nDeltas[t] > 0 /\ NoMarkers(obs.raw[t])
    /\ NothingPending

C11_PlainAnswerCommittedAndSpoken ==
    \A t \in Turns :
        PlainTurn(t) =>
            /\ spoken[t] = obs.raw[t]
            /\ \A m \in MsgOfTurn(messages, t) :
                   m.content = obs.raw[t] /\ m.thinking = Null

\* C12: a transport or backend error during a turn ends the turn, leaves
\* PendingInput unset, schedules no deferred start and releases the lock and
\* the abort handle, so that the next final utterance takes the idle branch.
ErrorStep(t) == pc[t] \in {"fetch", "read"} /\ pc'[t] = "failed"

C12_ErrorReleasesLock ==
    [][\A t \in Turns : ErrorStep(t) =>
         /\ ~isProcessingRef' /\ abortControllerRef' = 0
         /\ pendingUserInputRef' = Null /\ timers' = timers]_vars

\* the first turn failed and a later utterance started the second turn
C12_Witness ==
    /\ pc[1] = "failed" /\ pc[2] = "fetch" /\ isProcessingRef /\ micOn
    /\ req[2] # <<>> /\ req[2][Len(req[2])].content = LastInput

\* C13: when a turn ends by a connection or backend failure, the error
\* status message set for it is the message left to display, whether or not
\* a call is active.
C13_ErrorMessageKept ==
    [][\A t \in Turns : ErrorStep(t) => statusMessagePend' = "LLM error"]_vars

\* C14: a turn that ends after the controller aborted it (interrupt or
\* endCall) does not end as a failure, and the step that ends it sets no
\* error status and no error status message.
AbortedEnd(t) ==
    /\ aborted[t] /\ pc[t] \in {"fetch", "read", "speak"}
    /\ pc'[t] \notin {"fetch", "read", "speak"}

C14_AbortNotSurfaced ==
    [][\A t \in Turns : AbortedEnd(t) =>
         /\ pc'[t] # "failed"
         /\ statusPend' \in {statusPend, "listening"}
         /\ statusMessagePend' \in {statusMessagePend, "Listening..."}]_vars

\* a turn ended by an abort outside a rendered call, and no error is shown
\* or waiting to be shown
C14_Witness ==
    /\ \E t \in Turns : pc[t] = "aborted" /\ aborted[t]
    /\ ~isCallActiveRef
    /\ statusMessagePend # "LLM error" /\ statusMessage # "LLM error"

\* C15: a transcript event that is partial, empty or blank leaves the
\* messages, PendingInput, the lock, the abort handle, the requests, the
\* turns and the synthesizer untouched, whether or not a turn is active.
NewEvent == obs'.event # obs.event
Admissible(ev) ==
    ev[2] /\ \E i \in 1..Len(ev[1]) : ev[1][i] # Space

C15_OnlyFinalNonBlankAdmitted ==
    [][(NewEvent /\ ~Admissible(obs'.event)) =>
         /\ messages' = messages /\ msgQueue' = msgQueue /\ messagesRef' = messagesRef
         /\ pendingUserInputRef' = pendingUserInputRef
         /\ isProcessingRef' = isProcessingRef
         /\ abortControllerRef' = abortControllerRef /\ aborted' = aborted
         /\ tts' = tts /\ req' = req /\ pc' = pc /\ nUtter' = nUtter]_vars

\* a blank final transcript was seen while a turn was active
C15_Witness ==
    /\ obs.event = <<(<<Space>>), TRUE>>
    /\ isProcessingRef /\ \E t \in Turns : pc[t] = "read"

\* C16: the accumulated answer text depends only on the stream, not on how
\* it is split into reads: when the stream has ended the text equals the
\* text obtained when the whole stream arrives in one read.
OneRead(stream) == ProcessLines(CompleteLines(stream), <<>>)

C16_SplitIndependent == sse.phase = "eof" => sse.text = OneRead(sse.stream)

\* C17: once a [DONE] line has been handled, nothing more is read from the
\* stream and no frame is applied to the text.
C17_NothingAfterDone ==
    [][sse.sawDone => (sse'.pos = sse.pos /\ sse'.text = sse.text)]_vars

\* C18: a frame whose payload is not JSON is skipped: each read leaves the
\* text as it would be with the unparseable frames removed from the lines
\* it handled (so the frames after them are applied in order), and the
\* stream loop goes on.
Malformed(line) ==
    LET trimmedLine == Trim(line)
    IN /\ trimmedLine # <<>> /\ Head(trimmedLine) = DataPrefix
       /\ Tail(trimmedLine) # DoneText
       /\ \A c \in {"a", "b", "e"} : Trim(Tail(trimmedLine)) # <<c>>
WellFormed(line) == ~Malformed(line)
LinesOfStep == CompleteLines(sse.buffer \o SubSeq(sse.stream, sse.pos + 1, sse'.pos))

C18_MalformedFrameSkipped ==
    [][sse'.pos > sse.pos =>
         /\ sse'.text = ProcessLines(SelectSeq(LinesOfStep, WellFormed), sse.text)
         /\ sse'.phase = "reading"]_vars

\* an unparseable frame was followed by a well-formed one, which was applied
C18_Witness ==
    /\ sse.stream = <<DataPrefix, "x", Newline, DataPrefix, "a", Newline>>
    /\ sse.phase = "eof" /\ sse.text = <<"a">>

\* C19: the ends of a stream are kept apart for the caller: end of input is
\* reported only for a stream in which no [DONE] line was handled ([DONE]
\* being a signal of its own).
C19_EndSignalsKeptApart == sse.phase = "eof" => ~sse.sawDone

\* C20: applying a delta appends its answer fragment, if present, to the
\* answer accumulator and its reasoning fragment, if present, to the
\* reasoning accumulator, each whatever the other is; an absent fragment
\* leaves its accumulator unchanged.
Fragment(v) == IF v = Null THEN <<>> ELSE v

C20_AccumulatorsIndependent ==
    [][patched'.n > patched.n =>
         /\ patched'.content = patched.content \o Fragment(patched'.delta.content)
         /\ patched'.reasoning = patched.reasoning \o Fragment(patched'.delta.reasoning_content)]_vars

\* deltas with both fragments, with only one of them and with none were applied
C20_Witness ==
    /\ patched.n = MaxPatchedDeltas
    /\ patched.content = <<"a", "c">> /\ patched.reasoning = <<"r">>
    /\ patched.delta = [content |-> <<"c">>, reasoning_content |-> Null]

\* C21: once a delta of the turn has carried a reasoning fragment, every
\* resolve (the one of a delta that carries a fragment, and the final one
\* after the stream ended) takes thinking from the reasoning accumulator and
\* not from marker extraction, also when the answer text holds a marker pair.
ResolveStep ==
    \/ /\ patched'.n > patched.n
       /\ Truthy(patched'.delta.content) \/ Truthy(patched'.delta.reasoning_content)
    \/ patched.phase = "streaming" /\ patched'.phase = "final"

C21_ReasoningChannelWins ==
    [][(ResolveStep /\ patched'.reasoning # <<>>) =>
          patched'.thinking = patched'.reasoning]_vars

\* the stream ended with a reasoning fragment received and a complete marker
\* pair in the answer text; thinking is the reasoning text
C21_Witness ==
    /\ patched.phase = "final"
    /\ patched.reasoning = <<"r">>
    /\ patched.content = StartMarker \o <<"b">> \o EndMarker \o <<"c">>
    /\ patched.thinking = <<"r">>

\* C22: on the explicit-reasoning path resolve returns the reasoning text as
\* thinking and the answer text as clean, both verbatim (no trimming), in
\* the streaming handler and in processResponseEnhanced alike.
EnhancedReturn == patched.fn = "none" /\ patched'.fn = "processResponseEnhanced"

C22_ExplicitPathVerbatim ==
    [][/\ (ResolveStep /\ patched'.reasoning # <<>>) =>
             /\ patched'.thinking = patched'.reasoning
             /\ patched'.clean = patched'.content
       /\ (EnhancedReturn /\ Truthy(patched.args[2])) =>
             patched'.result = [thinking |-> patched.args[2],
                                cleanResponse |-> patched.args[1]]]_vars

\* The first end marker at or after position from (0-based), or -1.
FirstEndFrom(s, from) ==
    LET hits == {i \in from..Len(s) : IsPrefixAt(s, EndMarker, i)}
    IN IF hits = {} THEN -1 ELSE CHOOSE i \in hits : \A j \in hits : i <= j

\* The first start marker is followed by an end marker.
FirstStart(s) == IndexOf(s, StartMarker)
EndAfterStart(s) ==
    IF FirstStart(s) = -1 THEN -1 ELSE FirstEndFrom(s, FirstStart(s) + Len(StartMarker))
HasMarkerPair(s) == FirstStart(s) # -1 /\ EndAfterStart(s) # -1

\* C23: marker extraction takes the first start marker and the first end
\* marker that occurs after it; when both exist, thinking is the trimmed
\* text between them and clean the trimmed concatenation of the text before
\* the start marker and the text after that end marker, for every input
\* (also when another end marker stands before the start marker).
C23_FirstPairExtracted ==
    (patched.fn = "processResponse" /\ HasMarkerPair(patched.args[1])) =>
        LET rawResponse == patched.args[1]
            startIndex == FirstStart(rawResponse)
            endIndex == EndAfterStart(rawResponse)
        IN patched.result =
              [thinking |-> Trim(Substring(rawResponse, startIndex + Len(StartMarker), endIndex)),
               cleanResponse |-> Trim(Substring(rawResponse, 0, startIndex)
                                      \o SubstringFrom(rawResponse, endIndex + Len(EndMarker)))]

\* C24: when the text has no start marker, or no end marker after its first
\* start marker (none at all, or only before it), processResponse returns
\* thinking null and clean equal to the text, untrimmed.
C24_NoPairVerbatim ==
    (patched.fn = "processResponse" /\ ~HasMarkerPair(patched.args[1])) =>
        patched.result = [thinking |-> Null, cleanResponse |-> patched.args[1]]

\* a text with blanks around it and an end marker only before the start
\* marker was returned as it is
C24_Witness ==
    /\ patched.fn = "processResponse"
    /\ patched.args[1] = <<Space>> \o EndMarker \o StartMarker \o <<"a", Space>>
    /\ patched.result = [thinking |-> Null, cleanResponse |-> patched.args[1]]

\* C25: over the deltas of one turn each resolved clean text extends the
\* previous one, except at the one step at which a marker pair completes on
\* the legacy path; so neither a reasoning fragment that arrives after
\* marker extraction nor the final processing after the stream ended changes
\* clean other than by extending it.
IsPrefix(a, b) == Len(a) <= Len(b) /\ SubSeq(b, 1, Len(a)) = a
Extracts(s) == processResponse(s).thinking # Null
MarkerCompletionStep ==
    /\ patched'.n > patched.n /\ patched'.reasoning = <<>>
    /\ ~Extracts(patched.content) /\ Extracts(patched'.content)

C25_CleanOnlyGrows ==
    [][~IsPrefix(patched.clean, patched'.clean) => MarkerCompletionStep]_vars

\* C26: thinking text is never spoken: the text given to tts.speak holds no
\* marker and none of the text that a response carries between a start
\* marker and its end marker (the letter b of the answer fragments).
ThinkingText == <<"b">>

C26_ThinkingNeverSpoken ==
    \A t \in Turns :
        spoken[t] # Null =>
            /\ NoMarkers(spoken[t])
            /\ IndexOf(spoken[t], ThinkingText) = -1

\* C27: at most one speak call is outstanding: tts.speak is never called
\* while the speech of an earlier call is still playing (it has neither
\* completed nor been stopped).
Playing == {t \in Turns : tts[t] = "playing"}

C27_OneSpeakOutstanding ==
    [][\A t \in Turns :
         (tts[t] # "playing" /\ tts'[t] = "playing") => Playing = {}]_vars

\* C28: speech is streamed: when the clean text of a response has a
\* completed sentence (a full stop and a blank) followed by more text, text
\* has been handed to the synthesizer before the stream of the response
\* ended, that is, before the step that sees the end of the stream.
SentenceThenMore(s) ==
    \E i \in 1..Len(s) :
        /\ s[i] = "." /\ i < Len(s) /\ s[i + 1] = Space
        /\ \E j \in (i + 2)..Len(s) : s[j] # Space

C28_SpeechStartsWhileStreaming ==
    [][\A t \in Turns :
         (FinalizeStep(t) /\ SentenceThenMore(processResponse(obs.raw[t]).cleanResponse))
            => spoken[t] # Null]_vars

\* Everything handed to the synthesizer for turn t, in order.
Handed(sp, t) == IF sp[t] = Null THEN <<>> ELSE sp[t]
CleanOf(t) == processResponse(obs.raw[t]).cleanResponse

\* C29: within a turn text is handed to the synthesizer at most once, and
\* when the stream has ended everything handed over is exactly the final
\* clean text of the turn (nothing repeated, nothing left unspoken).
C29_AllCleanTextHandedOnce ==
    [][\A t \in Turns :
         /\ spoken[t] # Null => spoken'[t] = spoken[t]
         /\ FinalizeStep(t) => Handed(spoken', t) = CleanOf(t)]_vars

\* C30: between startCall and endCall the history is append-only: every
\* step keeps the existing Messages in place and unchanged, except that the
\* content and thinking of the most recent assistant Message may change
\* while the turn of that Message is reading its stream.  (The history is
\* taken with the queued updates applied.)
LastAssistant(h) ==
    LET idx == {i \in 1..Len(h) : h[i].role = "assistant"}
    IN IF idx = {} THEN 0 ELSE CHOOSE i \in idx : \A j \in idx : j <= i

StreamingEdit(m, n) ==
    /\ n.role = m.role /\ n.turn = m.turn
    /\ m.turn \in Turns /\ pc[m.turn] = "read"

C30_HistoryAppendOnly ==
    [][(isCallActive /\ isCallActive') =>
         /\ Len(History') >= Len(History)
         /\ \A i \in 1..Len(History) :
               \/ History'[i] = History[i]
               \/ i = LastAssistant(History) /\ StreamingEdit(History[i], History'[i])]_vars

\* C31: every started turn eventually returns the controller to idle: when
\* every fetch, stream read and speak call settles, a turn that took the
\* lock reaches the end of its finally block, where the lock is free, the
\* abort handle null and the response buffer empty, whether it completed,
\* failed or was cancelled.
Released(t) ==
    /\ pc[t] \in {"spoke", "silent", "failed", "aborted"}
    /\ ~isProcessingRef /\ abortControllerRef = 0 /\ currentResponseRef = <<>>

C31_TurnEventuallyReleases == \A t \in Turns : Live(t) ~> Released(t)

\* a turn that was cancelled while speaking has ended and released the lock
C31_Witness ==
    \E t \in marked : Released(t) /\ spoken[t] # Null /\ aborted[t]

\* C32: every user Message appended to the history is eventually answered
\* by a generation request that includes it; in particular the request of a
\* pending utterance that was consumed and appended by a finally block is
\* issued also when another utterance arrives before its deferred start.
UserTexts == {<<UChar(k)>> : k \in 1..FairUtter}
Appended(u) == u \in ContentsOf(History)
Answered(u) == \E t \in Turns : u \in ContentsOf(req[t])
\* the deferred start of u is still queued and the turn bound is used up
Blocked(u) ==
    /\ \E i \in 1..Len(timers) : timers[i] = u
    /\ \A t \in 1..cap.turns : pc[t] # "free"

C32_EveryUserMessageAnswered == \A u \in UserTexts : Appended(u) ~> (Answered(u) \/ Blocked(u))


\* C33: the request issued by the deferred start of a consumed pending
\* utterance contains that utterance exactly once, as its last element,
\* whether or not messagesRef already holds the appended user Message.
Occurrences(s, u) == Cardinality({i \in 1..Len(s) : s[i].role = "user" /\ s[i].content = u})
DeferredStartOf(t) == timers # <<>> /\ timers' = Tail(timers) /\ pc[t] = "free" /\ pc'[t] = "fetch"

C33_PendingOnceAndLast ==
    [][\A t \in Turns : DeferredStartOf(t) =>
        /\ Occurrences(req'[t], Head(timers)) = 1
        /\ req'[t][Len(req'[t])] = [role |-> "user", content |-> Head(timers)]]_vars


\* C34: the assistant Message of a cancelled, errored or interrupted turn
\* stays in the message list as it is, empty placeholder or partial text
\* (until startCall empties the list), and the request of every turn started
\* afterwards carries each such Message that messagesRef holds, at its place
\* in the history.
Cancelled(t) == pc[t] \in {"aborted", "failed"}
ResetQueued == \E i \in 1..Len(msgQueue) : msgQueue[i] = ResetUpd
StaysAsIs(t) ==
    \A i \in 1..Len(messages) :
        messages[i].turn = t => i <= Len(messages') /\ messages'[i] = messages[i]
StartOf(t) == pc[t] = "free" /\ pc'[t] = "fetch"
SentAsIs(t) ==
    \A i \in 1..Len(messagesRef) :
        (messagesRef[i].turn \in Turns /\ Cancelled(messagesRef[i].turn)) =>
            req'[t][i] = [role |-> "assistant", content |-> messagesRef[i].content]

C34_CancelledMessageKept ==
    [][\A t \in Turns :
         /\ (Cancelled(t) /\ ~ResetQueued) => StaysAsIs(t)
         /\ StartOf(t) => SentAsIs(t)]_vars


\* C35: after endCall, until a new user input is admitted, no generation
\* request is issued and speak is not called; a turn that was outstanding
\* when the call ended never calls speak afterwards.
Quiet == obs.hung.utter = nUtter
SpeakCall(t) == tts[t] # "playing" /\ tts'[t] = "playing"

C35_NothingStartsAfterEndCall ==
    [][\A t \in Turns :
         /\ (StartOf(t) /\ Quiet) => nUtter' = nUtter + 1
         /\ SpeakCall(t) => ~Quiet /\ ~(t < obs.hung.turn)]_vars


\* C36: whenever no turn is active, no deferred start is scheduled and the
\* status updates have been rendered, the displayed status is neither
\* "thinking" nor "speaking".
C36_StatusLeavesBusy ==
    ((\A t \in Turns : ~Live(t)) /\ timers = <<>> /\ statusPend = "none")
        => status \notin {"thinking", "speaking"}


\* C37: a call of handleLLMResponse while a turn is active (a turn has taken
\* the lock and has not run its finally block) returns without changing the
\* processing lock, PendingInput, the abort handle, the current-response
\* buffer, the status or the message list, and issues no request.
HandleCall ==
    \/ timers # <<>> /\ timers' = Tail(timers)
    \/ nUtter' = nUtter + 1 /\ Len(msgQueue') > Len(msgQueue)
CallerQueue ==
    \/ msgQueue' = msgQueue
    \/ \E k \in 1..MaxUtter : \E u \in RawTexts(k) :
          msgQueue' = Append(msgQueue, AppendUpd(UserMsg(Trim(u))))
Returned ==
    /\ UNCHANGED <<refVars, statusPend, statusMessagePend, req, pc, nextTurn>>
    /\ CallerQueue

C37_CallWhileActiveIsNoOp ==
    [][(HandleCall /\ \E t \in Turns : Live(t)) => Returned]_vars


\* C38: thinking text is never sent back to the generation backend: every
\* message of every request has the fields role and content only, and its
\* content holds no text that processResponse resolves as thinking.
C38_ThinkingNeverSent ==
    \A t \in Turns : \A i \in 1..Len(req[t]) :
        /\ DOMAIN req[t][i] = {"role", "content"}
        /\ processResponse(req[t][i].content).thinking = Null


\* C39: in the client stream loop the data frames of the newline-terminated
\* lines are decoded exactly once and in stream order up to the end of the
\* stream, the end being the first [DONE] line or the end of input: the text
\* begins with the contents of the frames before the first [DONE] line and,
\* in a stream without [DONE], is exactly the contents of the terminated
\* lines delivered so far; a last line without newline is never decoded.
RECURSIVE FramesOf(_)
FramesOf(lines) ==
    IF lines = <<>> THEN <<>>
    ELSE LET trimmedLine == Trim(Head(lines))
             frame == IF trimmedLine # <<>> /\ Head(trimmedLine) = DataPrefix
                         /\ Tail(trimmedLine) # DoneText
                      THEN FrameContent(Tail(trimmedLine)) ELSE <<>>
         IN frame \o FramesOf(Tail(lines))
RECURSIVE BeforeDone(_)
BeforeDone(lines) ==
    IF lines = <<>> \/ IsDoneLine(Head(lines)) THEN <<>>
    ELSE <<Head(lines)>> \o BeforeDone(Tail(lines))
Delivered == CompleteLines(SubSeq(sse.stream, 1, sse.pos))

C39_FramesBeforeEndDecodedOnce ==
    sse.phase \in {"reading", "eof"} =>
        IF \E i \in 1..Len(Delivered) : IsDoneLine(Delivered[i])
        THEN IsPrefix(FramesOf(BeforeDone(Delivered)), sse.text)
        ELSE sse.text = FramesOf(Delivered)

\* two terminated frames were decoded in order and the unterminated third
\* line was left in the buffer when the stream ended
C39_Witness ==
    /\ sse.phase = "eof"
    /\ sse.stream = <<DataPrefix, "a", Newline, DataPrefix, "b", Newline, DataPrefix, "a">>
    /\ sse.text = <<"a", "b">>
    /\ sse.buffer = <<DataPrefix, "a">>

\* C39 as stated, the end of the stream being the end of input: when the
\* stream has ended the text is exactly the contents of all terminated
\* data frames, in order.
C39_EveryFrameDecodedOnce ==
    sse.phase = "eof" => sse.text = FramesOf(CompleteLines(sse.stream))


\* C40: for any split of the upstream bytes into reads the server-side
\* transformer has enqueued, for the newline-terminated upstream lines read
\* so far and in their order, one {text} frame per data frame that parses
\* with non-empty delta content and one {done:true} frame per [DONE] line,
\* frames behind a [DONE] line included and unparseable frames skipped; it
\* closes its output once, when the upstream ends or has no body, and never
\* otherwise.
RECURSIVE UpstreamFrames(_)
UpstreamFrames(lines) ==
    IF lines = <<>> THEN <<>>
    ELSE LET line == Head(lines)
             frame == IF line = <<>> \/ Head(line) # DataPrefix THEN <<>>
                      ELSE IF Tail(line) = DoneText THEN <<DoneFrame>>
                      ELSE IF Parses(Tail(line)) /\ FrameContent(Tail(line)) # <<>>
                           THEN <<TextFrame(FrameContent(Tail(line)))>>
                           ELSE <<>>
         IN frame \o UpstreamFrames(Tail(lines))

C40_ServerTransformer ==
    sse.phase \in {"start", "reading", "closed", "errored"} =>
        /\ sse.out = UpstreamFrames(Delivered)
        /\ sse.closed = (IF sse.phase = "closed" THEN 1 ELSE 0)
        /\ sse.phase = "closed" => (sse.pos = Len(sse.stream) \/ ~sse.body)

\* a text frame, a [DONE] line and a text frame behind it were all passed
\* on, and the output was closed at the end of the upstream
C40_Witness ==
    /\ sse.phase = "closed" /\ sse.closed = 1
    /\ sse.stream = <<DataPrefix, "a", Newline, DataPrefix, "$", Newline, DataPrefix, "b", Newline>>
    /\ sse.out = <<TextFrame(<<"a">>), DoneFrame, TextFrame(<<"b">>)>>

====
